---- MODULE Spec2Model ----
(***************************************************************************)
(* Real-time session and notification fan-out of the portfolio backend     *)
(* (src/backend/server.ts): socket.io handshake authentication, room       *)
(* membership, and the REST mutation handlers that emit events after       *)
(* their database writes.                                                  *)
(*                                                                         *)
(* The server runs on one event loop: every synchronous stretch of a       *)
(* handler (from one await to the next) is one atomic action, and other    *)
(* handlers and socket events interleave at each await.                    *)
(***************************************************************************)
EXTENDS Integers, Sequences, FiniteSets, TLC

(* ---------------- bounds ---------------- *)
NumConns == 2
NumReqs == 2
\* client portfolio_update messages relayed in one run
MaxRelays == 2

Conns == 1..NumConns
Reqs == 1..NumReqs

(* ---------------- value sets ---------------- *)
\* the seeded store: users u1 and u2, portfolio p1 of u1 with an analytics
\* row, portfolio p2 of u2 without one
UserIds == {"u1", "u2"}
\* subjects a verifiable token can carry; "u0" has no row in users
Subjects == UserIds \cup {"u0"}
\* handshake / bearer credentials: absent, failing jwt.verify, or verifying
\* with the given subject as user_id
Tokens == {"none", "bad"} \cup Subjects
PortfolioIds == {"p1", "p2"}
\* the id uuidv4() gives the row that request r inserts
uuidv4(r) == "n" \o ToString(r)
CreatedIds == {uuidv4(r) : r \in Reqs}
\* the portfolio_id values of the store
AllPortfolioIds == PortfolioIds \cup CreatedIds
\* argument of join_portfolio / leave_portfolio: any client-chosen id
JoinArgs == PortfolioIds
None == "-"
\* the dispatch-log slot of the relays made for client messages
Relay == 0
\* section ids: s1 is seeded (of p1), the others are those of created rows
SectionIds == {"s1"} \cup CreatedIds
ALL == <<"all">>

\* what a client can put in a join_portfolio / leave_portfolio message: the id
\* of portfolio p1, a string that is no portfolio's id (the id of user u1), or
\* nothing at all
Undefined == <<"undefined">>
Payloads == {<<"string", "p1">>, <<"string", "u1">>, Undefined}
\* the string a template literal `${portfolio_id}` makes of a payload
TemplateString(x) == IF x[1] = "string" THEN x[2] ELSE "undefined"
\* a payload that names a portfolio of the store
NamesPortfolio(x) == x[1] = "string" /\ x[2] \in PortfolioIds

UserRoom(user_id) == <<"user", user_id>>
PortfolioRoom(portfolio_id) == <<"portfolio", portfolio_id>>
RoomIds == {UserRoom(u) : u \in Subjects \cup CreatedIds}
             \cup {PortfolioRoom(x) : x \in JoinArgs \cup AllPortfolioIds}
             \cup {PortfolioRoom(TemplateString(x)) : x \in Payloads}

Kinds == {"update", "contact", "view", "login", "delete", "create", "get",
          "sectionCreate", "sectionUpdate", "sectionDelete", "register"}
AuthKinds == {"update", "delete", "get"}
SectionKinds == {"sectionCreate", "sectionUpdate", "sectionDelete"}

\* request inputs <<token, portfolio_id, title>>, one per path of the handler
UpdateInputs == {<<"none", "p1", "t1">>, <<"bad", "p1", "t1">>, <<"u0", "p1", "t1">>,
                 <<"u1", "p1", "">>, <<"u1", "p1", "t1">>, <<"u1", "p2", "t1">>,
                 <<"u2", "p1", "t1">>}
DeleteInputs == {<<"none", "p1", None>>, <<"u1", "p1", None>>, <<"u1", "p2", None>>,
                 <<"u2", "p1", None>>}
\* login bodies <<account, password>>
LoginInputs == {<<"u1", "good">>, <<"u1", "wrong">>, <<"u0", "good">>, <<"u1", "">>}

VARIABLES
  conn,          \* conn[c]: handshake/liveness state of socket c and its socket.user
  rooms,         \* rooms[r]: socket.io adapter membership of room r
  recent,        \* recent[c]: the latest join/leave message received from socket c,
                 \* <<event, payload>>, twice when it repeats the one before it
                 \* (kept where the messages are told apart)
  inbox,         \* inbox[c]: events written to socket c, each <<r, i>> naming dispatchLog[r][i]
  taken,         \* taken[c]: how many packets of inbox[c] the client has read so far
  dispatchLog,   \* dispatchLog[r]: the emit calls made by request r, in call order;
                 \* dispatchLog[Relay]: the relays made for client messages
  users,         \* users table: set of user_id
  emails,        \* users.email: user_id -> email (None: no row)
  sections,      \* sections table: section_id -> [pid, type] (pid None: no row)
  portfolios,    \* portfolios table: portfolio_id -> [owner, title, is_published]
                 \* (owner None: no row)
  analytics,     \* analytics table: portfolio_id -> page_views counted from the
                 \* seeded value (-1: no row)
  contacts,      \* contacts table: set of [pid, req]
  notifications, \* notifications table: set of [user, req]
  req            \* req[r]: the in-flight REST request r and its position

vars == <<conn, rooms, recent, inbox, taken, dispatchLog, users, emails, sections,
          portfolios, analytics, contacts, notifications, req>>

sockVars == <<conn, rooms, recent>>
netVars == <<inbox, taken, dispatchLog>>
dbVars == <<users, emails, sections, portfolios, analytics, contacts, notifications>>

\* an email address is a sequence of characters; String.toLowerCase and
\* String.trim as register applies them before it stores the address
LowerChar(ch) == CASE ch = "U" -> "u" [] ch = "X" -> "x" [] OTHER -> ch
toLowerCase(e) == [i \in DOMAIN e |-> LowerChar(e[i])]
RECURSIVE trimStart(_)
trimStart(e) == IF e # <<>> /\ Head(e) = " " THEN trimStart(Tail(e)) ELSE e
RECURSIVE trimEnd(_)
trimEnd(e) == IF e # <<>> /\ e[Len(e)] = " " THEN trimEnd(SubSeq(e, 1, Len(e) - 1)) ELSE e
trim(e) == trimEnd(trimStart(e))
\* z.string().email(): no white space anywhere, one "@" with text on both sides
IsEmail(e) ==
  /\ \A i \in DOMAIN e : e[i] # " "
  /\ Cardinality({i \in DOMAIN e : e[i] = "@"}) = 1
  /\ e # <<>> /\ Head(e) # "@" /\ e[Len(e)] # "@"
\* the seeded addresses, one per user
SeedEmail(u) == IF u = "u1" THEN <<"u", "@", "x">> ELSE <<"a", "@", "x">>

\* a portfolio_id without a row
NoPortfolio == [owner |-> None, title |-> None, is_published |-> FALSE]

IdleConn == [st |-> "idle", user |-> None, err |-> None]
\* sub: req.user of authenticateToken (login: the account named by the body);
\* user_id: body.user_id (create) or owner_user_id (contact); row: the row a
\* write RETURNs; acked: the handler's write resolved; rows: rows it affected;
\* code: the error code of an answer of authenticateToken
\* sid, type: the section a section route names and the type its body gives
\* (None: the body has no field to set); email: the address of a register body
IdleReq == [kind |-> None, pc |-> "idle", sub |-> None, pid |-> None, title |-> None,
            sid |-> None, type |-> None, email |-> None,
            password |-> None, user_id |-> None, row |-> None,
            status |-> 0, code |-> None, acked |-> FALSE, rows |-> 0, emitErr |-> FALSE]

Init ==
  /\ conn = [c \in Conns |-> IdleConn]
  /\ rooms = [r \in RoomIds |-> {}]
  /\ recent = [c \in Conns |-> <<>>]
  /\ inbox = [c \in Conns |-> <<>>]
  /\ taken = [c \in Conns |-> 0]
  /\ dispatchLog = [r \in Reqs \cup {Relay} |-> <<>>]
  /\ users = UserIds
  /\ emails = [u \in UserIds \cup CreatedIds |-> IF u \in UserIds THEN SeedEmail(u) ELSE None]
  /\ sections = [x \in SectionIds |->
                   IF x = "s1" THEN [pid |-> "p1", type |-> "Text"]
                   ELSE [pid |-> None, type |-> None]]
  /\ portfolios = [p \in AllPortfolioIds |->
                     IF p \in PortfolioIds
                       THEN [owner |-> IF p = "p1" THEN "u1" ELSE "u2", title |-> "t0",
                             is_published |-> p = "p1"]
                       ELSE NoPortfolio]
  /\ analytics = [p \in AllPortfolioIds |-> IF p = "p1" THEN 0 ELSE -1]
  /\ contacts = {}
  /\ notifications = {}
  /\ req = [r \in Reqs |-> IdleReq]

Live(c) == conn[c].st = "open"

(* ---------------- socket.io handshake and rooms ---------------- *)

\* authenticateSocket that joins the personal room as soon as the token verifies
authenticateSocketJoinsFirst(c, token) ==
  /\ conn[c].st = "idle"
  /\ IF c = 1 THEN TRUE ELSE conn[c - 1].st # "idle"
  /\ conn' = [conn EXCEPT ![c] =
       IF token = "none" THEN [st |-> "refused", user |-> None,
                               err |-> "Authentication token required"]
       ELSE IF token = "bad" THEN [st |-> "refused", user |-> None,
                                   err |-> "Authentication failed"]
       ELSE [st |-> "auth", user |-> token, err |-> None]]
  /\ rooms' = IF token \in Subjects THEN [rooms EXCEPT ![UserRoom(token)] = @ \cup {c}]
              ELSE rooms
  /\ UNCHANGED <<recent, netVars, dbVars, req>>

\* authenticateSocket up to its await: the token check and jwt.verify
authenticateSocket(c, token) ==
  /\ conn[c].st = "idle"
  /\ IF c = 1 THEN TRUE ELSE conn[c - 1].st # "idle"
  /\ conn' = [conn EXCEPT ![c] =
       IF token = "none" THEN [st |-> "refused", user |-> None,
                               err |-> "Authentication token required"]
       ELSE IF token = "bad" THEN [st |-> "refused", user |-> None,
                                   err |-> "Authentication failed"]
       ELSE [st |-> "auth", user |-> token, err |-> None]]
  /\ UNCHANGED <<rooms, recent, netVars, dbVars, req>>

\* OnConnection with the personal room joined before the lookup result is read
OnConnectionUnchecked(c) ==
  /\ conn[c].st = "auth"
  /\ rooms' = [rooms EXCEPT ![UserRoom(conn[c].user)] = @ \cup {c}]
  /\ conn' = [conn EXCEPT ![c] =
       IF conn[c].user \in users THEN [@ EXCEPT !.st = "open"]
       ELSE [st |-> "refused", user |-> None, err |-> "Invalid token"]]
  /\ UNCHANGED <<recent, netVars, dbVars, req>>

\* OnConnection that runs the connection handler whatever the lookup returned
OnConnectionAccepts(c) ==
  /\ conn[c].st = "auth"
  /\ conn' = [conn EXCEPT ![c].st = "open"]
  /\ rooms' = [rooms EXCEPT ![UserRoom(conn[c].user)] = @ \cup {c}]
  /\ UNCHANGED <<recent, netVars, dbVars, req>>

\* the users lookup of authenticateSocket resolves; on success next() runs
\* the connection handler, which joins the personal room
OnConnection(c) ==
  /\ conn[c].st = "auth"
  /\ IF conn[c].user \in users
       THEN /\ conn' = [conn EXCEPT ![c].st = "open"]
            /\ rooms' = [rooms EXCEPT ![UserRoom(conn[c].user)] = @ \cup {c}]
       ELSE /\ conn' = [conn EXCEPT ![c] = [st |-> "refused", user |-> None,
                                            err |-> "Invalid token"]]
            /\ UNCHANGED rooms
  /\ UNCHANGED <<recent, netVars, dbVars, req>>

\* the users lookup of authenticateSocket rejects: catch -> next(Error)
SocketLookupFails(c) ==
  /\ conn[c].st = "auth"
  /\ conn' = [conn EXCEPT ![c] = [st |-> "refused", user |-> None,
                                  err |-> "Authentication failed"]]
  /\ UNCHANGED <<rooms, recent, netVars, dbVars, req>>

\* the events addressed to the room of portfolio_id that socket c does not hold
Missed(c, portfolio_id) ==
  {m \in UNION {{<<r, i>> : i \in DOMAIN dispatchLog[r]} : r \in Reqs} :
     /\ dispatchLog[m[1]][m[2]].target = PortfolioRoom(portfolio_id)
     /\ \A k \in DOMAIN inbox[c] : inbox[c][k] # m}

\* JoinPortfolio that replays a missed event of the room to the joining socket
JoinPortfolioReplay(c, portfolio_id) ==
  /\ Live(c)
  /\ rooms' = [rooms EXCEPT ![PortfolioRoom(portfolio_id)] = @ \cup {c}]
  /\ inbox' = [inbox EXCEPT ![c] =
       IF Missed(c, portfolio_id) = {} THEN @
       ELSE Append(@, CHOOSE m \in Missed(c, portfolio_id) : TRUE)]
  /\ UNCHANGED <<conn, recent, taken, dispatchLog, dbVars, req>>

\* socket.on('join_portfolio')
JoinPortfolio(c, portfolio_id) ==
  /\ Live(c)
  /\ rooms' = [rooms EXCEPT ![PortfolioRoom(portfolio_id)] = @ \cup {c}]
  /\ UNCHANGED <<conn, recent, netVars, dbVars, req>>

\* socket.on('leave_portfolio')
LeavePortfolio(c, portfolio_id) ==
  /\ Live(c)
  /\ rooms' = [rooms EXCEPT ![PortfolioRoom(portfolio_id)] = @ \ {c}]
  /\ UNCHANGED <<conn, recent, netVars, dbVars, req>>

\* message m received after the messages before it
Received(before, m) == IF before # <<>> /\ before[Len(before)] = m THEN <<m, m>> ELSE <<m>>

\* the events addressed to the room of portfolio_id that socket c holds
Held(c, portfolio_id) ==
  {m \in UNION {{<<r, i>> : i \in DOMAIN dispatchLog[r]} : r \in Reqs} :
     /\ dispatchLog[m[1]][m[2]].target = PortfolioRoom(portfolio_id)
     /\ \E k \in DOMAIN inbox[c] : inbox[c][k] = m}

\* JoinMessage that, for a socket already in the room, writes an event of the
\* room to it again
JoinMessageAgain(c, portfolio_id) ==
  /\ Live(c)
  /\ rooms' = [rooms EXCEPT ![PortfolioRoom(TemplateString(portfolio_id))] = @ \cup {c}]
  /\ recent' = [recent EXCEPT ![c] = Received(@, <<"join_portfolio", portfolio_id>>)]
  /\ inbox' = [inbox EXCEPT ![c] =
       IF c \in rooms[PortfolioRoom(TemplateString(portfolio_id))]
          /\ Held(c, TemplateString(portfolio_id)) # {}
         THEN Append(@, CHOOSE m \in Held(c, TemplateString(portfolio_id)) : TRUE)
         ELSE @]
  /\ UNCHANGED <<conn, taken, dispatchLog, dbVars, req>>

\* JoinMessage that admits a socket only to the room of a portfolio that its
\* user owns or that is published
JoinMessageGated(c, portfolio_id) ==
  /\ Live(c)
  /\ LET id == TemplateString(portfolio_id)
         allowed == /\ id \in AllPortfolioIds
                    /\ (portfolios[id].owner = conn[c].user \/ portfolios[id].is_published)
     IN rooms' = IF allowed THEN [rooms EXCEPT ![PortfolioRoom(id)] = @ \cup {c}] ELSE rooms
  /\ recent' = [recent EXCEPT ![c] = Received(@, <<"join_portfolio", portfolio_id>>)]
  /\ UNCHANGED <<conn, netVars, dbVars, req>>

\* socket.on('join_portfolio') with the message as the client sent it: the
\* room is named by the template literal `portfolio_${portfolio_id}`, whatever
\* the payload is, and nothing is sent back
JoinMessage(c, portfolio_id) ==
  /\ Live(c)
  /\ rooms' = [rooms EXCEPT ![PortfolioRoom(TemplateString(portfolio_id))] = @ \cup {c}]
  /\ recent' = [recent EXCEPT ![c] = Received(@, <<"join_portfolio", portfolio_id>>)]
  /\ UNCHANGED <<conn, netVars, dbVars, req>>

\* LeaveMessage that leaves every room named after the payload, whatever its prefix
LeaveMessageNamed(c, portfolio_id) ==
  /\ Live(c)
  /\ rooms' = [room \in RoomIds |-> IF room[2] = TemplateString(portfolio_id)
                                      THEN rooms[room] \ {c} ELSE rooms[room]]
  /\ recent' = [recent EXCEPT ![c] = Received(@, <<"leave_portfolio", portfolio_id>>)]
  /\ UNCHANGED <<conn, netVars, dbVars, req>>

\* LeaveMessage that leaves every portfolio room of the socket
LeaveMessageAll(c, portfolio_id) ==
  /\ Live(c)
  /\ rooms' = [room \in RoomIds |-> IF room[1] = "portfolio"
                                      THEN rooms[room] \ {c} ELSE rooms[room]]
  /\ recent' = [recent EXCEPT ![c] = Received(@, <<"leave_portfolio", portfolio_id>>)]
  /\ UNCHANGED <<conn, netVars, dbVars, req>>

\* socket.on('leave_portfolio') with the message as the client sent it
LeaveMessage(c, portfolio_id) ==
  /\ Live(c)
  /\ rooms' = [rooms EXCEPT ![PortfolioRoom(TemplateString(portfolio_id))] = @ \ {c}]
  /\ recent' = [recent EXCEPT ![c] = Received(@, <<"leave_portfolio", portfolio_id>>)]
  /\ UNCHANGED <<conn, netVars, dbVars, req>>

\* Disconnect that leaves the room membership behind
DisconnectKeepsRooms(c) ==
  /\ conn[c].st \in {"auth", "open"}
  /\ conn' = [conn EXCEPT ![c] = [st |-> "closed", user |-> None, err |-> None]]
  /\ recent' = [recent EXCEPT ![c] = <<>>]
  /\ UNCHANGED <<rooms, netVars, dbVars, req>>

\* Disconnect that leaves the portfolio rooms but not the personal room
DisconnectHalf(c) ==
  /\ conn[c].st \in {"auth", "open"}
  /\ conn' = [conn EXCEPT ![c] = [st |-> "closed", user |-> None, err |-> None]]
  /\ rooms' = [r \in RoomIds |-> IF r[1] = "user" THEN rooms[r] ELSE rooms[r] \ {c}]
  /\ recent' = [recent EXCEPT ![c] = <<>>]
  /\ UNCHANGED <<netVars, dbVars, req>>

\* transport close. socket.io leaves every room of the socket and marks it
\* disconnected before it calls the 'disconnect' listener, which only logs.
\* A close during the handshake leaves a socket that never ran the
\* connection handler.
Disconnect(c) ==
  /\ conn[c].st \in {"auth", "open"}
  /\ conn' = [conn EXCEPT ![c] = [st |-> "closed", user |-> None, err |-> None]]
  /\ rooms' = [r \in RoomIds |-> rooms[r] \ {c}]
  /\ recent' = [recent EXCEPT ![c] = <<>>]
  /\ UNCHANGED <<netVars, dbVars, req>>

\* a 'subscribe' message arrives on a connected socket: the connection
\* handler registers no listener for it, so socket.io drops it
SubscribeMessage(c, channel) ==
  /\ Live(c)
  /\ recent' = [recent EXCEPT ![c] = Received(@, <<"subscribe", channel>>)]
  /\ UNCHANGED <<conn, rooms, netVars, dbVars, req>>

\* the client reads the next packet written to its socket, at its own pace
Receive(c) ==
  /\ taken[c] < Len(inbox[c])
  /\ taken' = [taken EXCEPT ![c] = @ + 1]
  /\ UNCHANGED <<sockVars, inbox, dispatchLog, dbVars, req>>

(* ---------------- event dispatch ---------------- *)

\* MembersOf with io.emit reaching every socket that ever connected
MembersOfStale(target) ==
  IF target = ALL THEN {c \in Conns : conn[c].st \in {"open", "closed"}} ELSE rooms[target]

\* the sockets an emit addresses: io.to(room) the members of the room,
\* io.emit every connected socket of the namespace
MembersOf(target) == IF target = ALL THEN {c \in Conns : Live(c)} ELSE rooms[target]

\* Broadcast that puts the packet ahead of those already written to a socket
BroadcastNewestFirst(net, r, target, event, payload) ==
  LET e == [event |-> event, target |-> target, payload |-> payload,
            members |-> MembersOf(target)]
      n == Len(net.log[r]) + 1
  IN [log |-> [net.log EXCEPT ![r] = Append(@, e)],
      box |-> [c \in Conns |-> IF c \in MembersOf(target)
                                 THEN << <<r, n>> >> \o net.box[c] ELSE net.box[c]]]

\* Broadcast that writes the packet to a socket once for each room it is in
BroadcastPerRoom(net, r, target, event, payload) ==
  LET e == [event |-> event, target |-> target, payload |-> payload,
            members |-> MembersOf(target)]
      n == Len(net.log[r]) + 1
      copies(c) == Cardinality({room \in RoomIds : c \in rooms[room]})
  IN [log |-> [net.log EXCEPT ![r] = Append(@, e)],
      box |-> [c \in Conns |-> IF c \in MembersOf(target)
                                 THEN net.box[c] \o [j \in 1..copies(c) |-> <<r, n>>]
                                 ELSE net.box[c]]]

\* Broadcast that writes to the addressed sockets one after the other and
\* stops at the first one with packets it has not read yet
BroadcastBlocking(net, r, target, event, payload) ==
  LET e == [event |-> event, target |-> target, payload |-> payload,
            members |-> MembersOf(target)]
      n == Len(net.log[r]) + 1
      reached(c) == \A d \in MembersOf(target) : d < c => taken[d] = Len(net.box[d])
  IN [log |-> [net.log EXCEPT ![r] = Append(@, e)],
      box |-> [c \in Conns |-> IF c \in MembersOf(target) /\ reached(c)
                                 THEN Append(net.box[c], <<r, n>>) ELSE net.box[c]]]

\* io.to(target).emit(event, payload) issued by request r: the adapter writes
\* the packet to each addressed socket, synchronously, without acknowledgement.
\* net is [log, box]: the dispatch log and the inboxes so far.
Broadcast(net, r, target, event, payload) ==
  LET e == [event |-> event, target |-> target, payload |-> payload,
            members |-> MembersOf(target)]
      n == Len(net.log[r]) + 1
  IN [log |-> [net.log EXCEPT ![r] = Append(@, e)],
      box |-> [c \in Conns |-> IF c \in MembersOf(target)
                                 THEN Append(net.box[c], <<r, n>>) ELSE net.box[c]]]

\* emitNotificationToUser through io.emit instead of io.to(room)
emitNotificationToAll(net, r, user_id, notification) ==
  Broadcast(net, r, ALL, "notification", notification)

emitNotificationToUser(net, r, user_id, notification) ==
  Broadcast(net, r, UserRoom(user_id), "notification", notification)

\* emitPortfolioUpdate through io.emit instead of io.to(room)
emitPortfolioUpdateAll(net, r, portfolio_id, portfolio_data) ==
  Broadcast(net, r, ALL, "portfolio_updates", portfolio_data)

emitPortfolioUpdate(net, r, portfolio_id, portfolio_data) ==
  Broadcast(net, r, PortfolioRoom(portfolio_id), "portfolio_updates", portfolio_data)

emitAnalyticsUpdate(net, r, portfolio_id, analytics_data) ==
  Broadcast(net, r, PortfolioRoom(portfolio_id), "analytics/updates", analytics_data)

ioEmit(net, r, event, payload) == Broadcast(net, r, ALL, event, payload)

\* what a client can send as portfolio_update: an object naming a portfolio,
\* or nothing at all
RelayInputs == {<<"object", p>> : p \in PortfolioIds} \cup {Undefined}

\* the relay addressed with io.to(room): the sender, when a member, receives it
RelayToRoom(net, c, data) ==
  LET target == PortfolioRoom(data[2])
      e == [event |-> "live_preview_update", target |-> target, payload |-> data[2],
            members |-> rooms[target], from |-> c]
      n == Len(net.log[Relay]) + 1
  IN [log |-> [net.log EXCEPT ![Relay] = Append(@, e)],
      box |-> [d \in Conns |-> IF d \in rooms[target]
                                 THEN Append(net.box[d], <<Relay, n>>) ELSE net.box[d]]]

\* socket.broadcast.to(`portfolio_${data.portfolio_id}`).emit('live_preview_update', ...)
\* on socket c: the packet is written to each member of the room but c
RelayBroadcast(net, c, data) ==
  LET target == PortfolioRoom(data[2])
      e == [event |-> "live_preview_update", target |-> target, payload |-> data[2],
            members |-> rooms[target] \ {c}, from |-> c]
      n == Len(net.log[Relay]) + 1
  IN [log |-> [net.log EXCEPT ![Relay] = Append(@, e)],
      box |-> [d \in Conns |-> IF d \in rooms[target] \ {c}
                                 THEN Append(net.box[d], <<Relay, n>>) ELSE net.box[d]]]

\* socket.emit('error', ...) of the relay's catch: written to socket c alone
RelayError(net, c) ==
  LET e == [event |-> "error", target |-> <<"socket", c>>,
            payload |-> "Failed to broadcast portfolio update", members |-> {c}, from |-> c]
      n == Len(net.log[Relay]) + 1
  IN [log |-> [net.log EXCEPT ![Relay] = Append(@, e)],
      box |-> [d \in Conns |-> IF d = c THEN Append(net.box[d], <<Relay, n>>)
                                ELSE net.box[d]]]

Net == [log |-> dispatchLog, box |-> inbox]
Sent(net) == dispatchLog' = net.log /\ inbox' = net.box /\ UNCHANGED taken

\* socket.on('portfolio_update') on socket c: reading data.portfolio_id of a
\* missing payload throws into the catch, which answers the sender alone
PortfolioUpdateMessage(c, data) ==
  /\ Live(c)
  /\ Len(dispatchLog[Relay]) < MaxRelays
  /\ IF data = Undefined THEN Sent(RelayError(Net, c))
                         ELSE Sent(RelayBroadcast(Net, c, data))
  /\ UNCHANGED <<sockVars, dbVars, req>>

(* ---------------- REST layer ---------------- *)

\* the response is sent; the handler's locals are gone
Finish(rec, status) == [rec EXCEPT !.pc = "done", !.status = status,
                                   !.sub = None, !.password = None]

\* an error response: only the route, the status and what was written remain
Reject(rec, status) == [IdleReq EXCEPT !.kind = rec.kind, !.pc = "done", !.status = status,
                                       !.acked = rec.acked, !.rows = rec.rows]

\* request slots are taken in order
Fresh(r) == req[r].pc = "idle" /\ (IF r = 1 THEN TRUE ELSE req[r - 1].pc # "idle")

HasRow(portfolio_id) == portfolios[portfolio_id].owner # None

\* authenticateToken up to its await: the header check and jwt.verify
authenticateToken(rec, token) ==
  IF token = "none" THEN [Reject(rec, 401) EXCEPT !.code = "AUTH_TOKEN_REQUIRED"]
  ELSE IF token = "bad" THEN [Reject(rec, 403) EXCEPT !.code = "AUTH_TOKEN_INVALID"]
  ELSE [rec EXCEPT !.pc = "auth", !.sub = token]

\* a request for a protected route arrives
ProtectedRequest(r, kind, token, portfolio_id, title) ==
  /\ Fresh(r)
  /\ kind \in AuthKinds
  /\ req' = [req EXCEPT ![r] = authenticateToken(
         [IdleReq EXCEPT !.kind = kind, !.pid = portfolio_id, !.title = title], token)]
  /\ UNCHANGED <<sockVars, netVars, dbVars>>

\* the users lookup of authenticateToken resolves; next() runs the route
\* handler up to its first await (validation, then the first query is issued)
AuthenticateTokenDone(r) ==
  /\ req[r].pc = "auth"
  /\ LET rec == req[r] IN
     req' = [req EXCEPT ![r] =
       IF rec.sub \notin users THEN [Reject(rec, 401) EXCEPT !.code = "AUTH_TOKEN_INVALID"]
       ELSE IF rec.kind \in {"delete", "get", "sectionDelete"} THEN [rec EXCEPT !.pc = "check"]
       ELSE IF rec.kind \in {"sectionCreate", "sectionUpdate"}
         THEN IF rec.type = "" THEN [Reject(rec, 400) EXCEPT !.code = "VALIDATION_ERROR"]
              ELSE [rec EXCEPT !.pc = "check"]
       ELSE IF rec.kind = "create"
         THEN IF rec.title = "" THEN [Reject(rec, 400) EXCEPT !.code = "VALIDATION_ERROR"]
              ELSE IF rec.user_id # rec.sub THEN [Reject(rec, 403) EXCEPT !.code = "FORBIDDEN"]
              ELSE [rec EXCEPT !.pc = "insert"]
       ELSE IF rec.title = "" THEN Reject(rec, 400)
       ELSE [rec EXCEPT !.pc = "check"]]
  /\ UNCHANGED <<sockVars, netVars, dbVars>>

\* an awaited pool.query rejects (connection lost, timeout): the handler's
\* catch answers 500, authenticateToken's catch answers 403
AwaitPcs == {"auth", "check", "write", "insert", "owner", "notify", "read",
             "delSections", "delAnalytics", "delContacts", "delPortfolio",
             "analytics", "delMedia", "delSection", "select"}

QueryFails(r) ==
  /\ req[r].pc \in AwaitPcs
  /\ req' = [req EXCEPT ![r] =
       IF @.pc = "auth" THEN [Reject(@, 403) EXCEPT !.code = "AUTH_TOKEN_INVALID"]
       ELSE Reject(@, 500)]
  /\ UNCHANGED <<sockVars, netVars, dbVars>>

(* PUT /api/portfolios/:portfolio_id *)

\* UpdateCheck that emits the update before the UPDATE is awaited
UpdateCheckEmitsEarly(r) ==
  /\ req[r].kind = "update" /\ req[r].pc = "check"
  /\ IF portfolios[req[r].pid].owner = req[r].sub
       THEN /\ req' = [req EXCEPT ![r].pc = "write"]
            /\ Sent(emitPortfolioUpdate(Net, r, req[r].pid, req[r].title))
       ELSE /\ req' = [req EXCEPT ![r] = Reject(@, 404)]
            /\ UNCHANGED netVars
  /\ UNCHANGED <<sockVars, dbVars>>

\* the ownership SELECT resolves; the UPDATE is issued
UpdateCheck(r) ==
  /\ req[r].kind = "update" /\ req[r].pc = "check"
  /\ req' = [req EXCEPT ![r] =
       IF portfolios[@.pid].owner = @.sub THEN [@ EXCEPT !.pc = "write"]
       ELSE Reject(@, 404)]
  /\ UNCHANGED <<sockVars, netVars, dbVars>>

\* the UPDATE ... WHERE portfolio_id AND user_id RETURNING * commits
UpdateWrite(r) ==
  /\ req[r].kind = "update" /\ req[r].pc = "write"
  /\ LET rec == req[r]
         hit == portfolios[rec.pid].owner = rec.sub
     IN /\ portfolios' = IF hit THEN [portfolios EXCEPT ![rec.pid].title = rec.title]
                         ELSE portfolios
        /\ req' = [req EXCEPT ![r] =
             [rec EXCEPT !.pc = "emit", !.acked = TRUE,
                         !.rows = IF hit THEN 1 ELSE 0,
                         !.row = IF hit THEN rec.title ELSE "undefined"]]
  /\ UNCHANGED <<sockVars, netVars, users, emails, sections, analytics, contacts, notifications>>

\* the continuation after the UPDATE: emitPortfolioUpdate, then res.json
UpdateEmit(r) ==
  /\ req[r].kind = "update" /\ req[r].pc = "emit"
  /\ Sent(emitPortfolioUpdate(Net, r, req[r].pid, req[r].row))
  /\ req' = [req EXCEPT ![r] = Finish(@, 200)]
  /\ UNCHANGED <<sockVars, dbVars>>

(* POST /api/portfolios/:portfolio_id/view *)

ViewRequest(r, portfolio_id) ==
  /\ Fresh(r)
  /\ req' = [req EXCEPT ![r] =
       [IdleReq EXCEPT !.kind = "view", !.pid = portfolio_id, !.pc = "write"]]
  /\ UNCHANGED <<sockVars, netVars, dbVars>>

\* ViewEmit that reports the count as it was before the increment
ViewEmitStale(r) ==
  /\ req[r].kind = "view" /\ req[r].pc = "emit"
  /\ IF req[r].rows > 0
       THEN Sent(emitAnalyticsUpdate(Net, r, req[r].pid, req[r].row - 1))
       ELSE UNCHANGED netVars
  /\ req' = [req EXCEPT ![r] = Finish(@, 200)]
  /\ UNCHANGED <<sockVars, dbVars>>

\* UPDATE analytics SET page_views = page_views + 1 ... RETURNING * commits
ViewWrite(r) ==
  /\ req[r].kind = "view" /\ req[r].pc = "write"
  /\ LET rec == req[r]
         hit == analytics[rec.pid] >= 0
     IN /\ analytics' = IF hit THEN [analytics EXCEPT ![rec.pid] = @ + 1] ELSE analytics
        /\ req' = [req EXCEPT ![r] =
             [rec EXCEPT !.pc = "emit", !.acked = TRUE,
                         !.rows = IF hit THEN 1 ELSE 0,
                         !.row = IF hit THEN analytics[rec.pid] + 1 ELSE None]]
  /\ UNCHANGED <<sockVars, netVars, users, emails, sections, portfolios, contacts, notifications>>

ViewEmit(r) ==
  /\ req[r].kind = "view" /\ req[r].pc = "emit"
  /\ IF req[r].rows > 0
       THEN Sent(emitAnalyticsUpdate(Net, r, req[r].pid, req[r].row))
       ELSE UNCHANGED netVars
  /\ req' = [req EXCEPT ![r] = Finish(@, 200)]
  /\ UNCHANGED <<sockVars, dbVars>>

(* POST /api/portfolios/:portfolio_id/contact *)

ContactRequest(r, portfolio_id) ==
  /\ Fresh(r)
  /\ req' = [req EXCEPT ![r] =
       [IdleReq EXCEPT !.kind = "contact", !.pid = portfolio_id, !.pc = "insert"]]
  /\ UNCHANGED <<sockVars, netVars, dbVars>>

\* INSERT INTO contacts commits, or violates the foreign key on portfolios;
\* then the owner SELECT is issued
ContactInsert(r) ==
  /\ req[r].kind = "contact" /\ req[r].pc = "insert"
  /\ IF HasRow(req[r].pid)
       THEN /\ contacts' = contacts \cup {[pid |-> req[r].pid, req |-> r]}
            /\ req' = [req EXCEPT ![r] =
                 [@ EXCEPT !.pc = "owner", !.acked = TRUE, !.rows = 1]]
       ELSE /\ req' = [req EXCEPT ![r] = Reject(@, 500)]
            /\ UNCHANGED contacts
  /\ UNCHANGED <<sockVars, netVars, users, emails, sections, portfolios, analytics, notifications>>

\* SELECT user_id FROM portfolios resolves; with an owner the notification
\* INSERT is issued, without one the handler answers 201
ContactOwner(r) ==
  /\ req[r].kind = "contact" /\ req[r].pc = "owner"
  /\ req' = [req EXCEPT ![r] =
       IF HasRow(@.pid)
         THEN [@ EXCEPT !.pc = "notify", !.user_id = portfolios[req[r].pid].owner]
         ELSE Finish(@, 201)]
  /\ UNCHANGED <<sockVars, netVars, dbVars>>

\* INSERT INTO notifications commits
ContactNotify(r) ==
  /\ req[r].kind = "contact" /\ req[r].pc = "notify"
  /\ notifications' = notifications \cup {[user |-> req[r].user_id, req |-> r]}
  /\ req' = [req EXCEPT ![r].pc = "emit"]
  /\ UNCHANGED <<sockVars, netVars, users, emails, sections, portfolios, analytics, contacts>>

\* the continuation: emitNotificationToUser, io.emit('contact/form/submit'),
\* then res.status(201)
ContactEmit(r) ==
  /\ req[r].kind = "contact" /\ req[r].pc = "emit"
  /\ Sent(ioEmit(emitNotificationToUser(Net, r, req[r].user_id, "contact_form"),
                 r, "contact/form/submit", req[r].pid))
  /\ req' = [req EXCEPT ![r] = Finish(@, 201)]
  /\ UNCHANGED <<sockVars, dbVars>>

(* POST /api/auth/login *)

\* body: the email of account sub and a password ("" is missing)
LoginRequest(r, sub, password) ==
  /\ Fresh(r)
  /\ req' = [req EXCEPT ![r] =
       LET rec == [IdleReq EXCEPT !.kind = "login", !.sub = sub, !.password = password]
       IN IF password = "" THEN Reject(rec, 400) ELSE [rec EXCEPT !.pc = "read"]]
  /\ UNCHANGED <<sockVars, netVars, dbVars>>

\* SELECT * FROM users WHERE email resolves; on a match the handler emits
\* the authentication notification and answers 200
LoginRead(r) ==
  /\ req[r].kind = "login" /\ req[r].pc = "read"
  /\ IF req[r].sub \in users /\ req[r].password = "good"
       THEN /\ Sent(emitNotificationToUser(Net, r, req[r].sub, "authentication"))
            /\ req' = [req EXCEPT ![r] = Finish(@, 200)]
       ELSE /\ req' = [req EXCEPT ![r] = Reject(@, 400)]
            /\ UNCHANGED netVars
  /\ UNCHANGED <<sockVars, dbVars>>

(* DELETE /api/portfolios/:portfolio_id *)

DeleteCheck(r) ==
  /\ req[r].kind = "delete" /\ req[r].pc = "check"
  /\ req' = [req EXCEPT ![r] =
       IF portfolios[@.pid].owner = @.sub THEN [@ EXCEPT !.pc = "delSections"]
       ELSE Reject(@, 404)]
  /\ UNCHANGED <<sockVars, netVars, dbVars>>

\* DELETE FROM media_files ... and DELETE FROM sections WHERE portfolio_id commit
DeleteSections(r) ==
  /\ req[r].kind = "delete" /\ req[r].pc = "delSections"
  /\ sections' = [x \in SectionIds |-> IF sections[x].pid = req[r].pid
                                          THEN [pid |-> None, type |-> None]
                                          ELSE sections[x]]
  /\ req' = [req EXCEPT ![r] = [@ EXCEPT !.pc = "delAnalytics", !.acked = TRUE]]
  /\ UNCHANGED <<sockVars, netVars, users, emails, portfolios, analytics, contacts,
                 notifications>>

\* DELETE FROM analytics WHERE portfolio_id commits
DeleteAnalytics(r) ==
  /\ req[r].kind = "delete" /\ req[r].pc = "delAnalytics"
  /\ analytics' = [analytics EXCEPT ![req[r].pid] = -1]
  /\ req' = [req EXCEPT ![r] = [@ EXCEPT !.pc = "delContacts", !.acked = TRUE]]
  /\ UNCHANGED <<sockVars, netVars, users, emails, sections, portfolios, contacts, notifications>>

\* DELETE FROM contacts WHERE portfolio_id commits
DeleteContacts(r) ==
  /\ req[r].kind = "delete" /\ req[r].pc = "delContacts"
  /\ contacts' = {k \in contacts : k.pid # req[r].pid}
  /\ req' = [req EXCEPT ![r] = [@ EXCEPT !.pc = "delPortfolio", !.acked = TRUE]]
  /\ UNCHANGED <<sockVars, netVars, users, emails, sections, portfolios, analytics, notifications>>

\* DeletePortfolio on a store without foreign keys
DeletePortfolioUnconstrained(r) ==
  /\ req[r].kind = "delete" /\ req[r].pc = "delPortfolio"
  /\ portfolios' = [portfolios EXCEPT ![req[r].pid] = NoPortfolio]
  /\ req' = [req EXCEPT ![r] =
       Finish([@ EXCEPT !.acked = TRUE,
                        !.rows = IF HasRow(req[r].pid) THEN 1 ELSE 0], 204)]
  /\ UNCHANGED <<sockVars, netVars, users, emails, sections, analytics, contacts,
                 notifications>>

\* DELETE FROM portfolios WHERE portfolio_id commits, or violates a foreign
\* key of a row inserted since; res.status(204) follows without any emit
DeletePortfolio(r) ==
  /\ req[r].kind = "delete" /\ req[r].pc = "delPortfolio"
  /\ LET pid == req[r].pid IN
     IF \/ \E k \in contacts : k.pid = pid
        \/ analytics[pid] >= 0
        \/ \E x \in SectionIds : sections[x].pid = pid
       THEN /\ req' = [req EXCEPT ![r] = Reject(@, 500)]
            /\ UNCHANGED portfolios
       ELSE /\ portfolios' = [portfolios EXCEPT ![pid] =
                                NoPortfolio]
            /\ req' = [req EXCEPT ![r] =
                 Finish([@ EXCEPT !.acked = TRUE,
                                  !.rows = IF HasRow(pid) THEN 1 ELSE 0], 204)]
  /\ UNCHANGED <<sockVars, netVars, users, emails, sections, analytics, contacts, notifications>>

(* POST /api/portfolios *)

\* a create request arrives: authenticateToken up to its await; body.user_id
\* and body.title ("" fails z.string().min(1))
CreateRequest(r, token, user_id, title) ==
  /\ Fresh(r)
  /\ req' = [req EXCEPT ![r] = authenticateToken(
         [IdleReq EXCEPT !.kind = "create", !.user_id = user_id, !.title = title], token)]
  /\ UNCHANGED <<sockVars, netVars, dbVars>>

\* INSERT INTO portfolios ... RETURNING * commits under a fresh uuid; the
\* INSERT INTO analytics is issued
CreateInsert(r) ==
  /\ req[r].kind = "create" /\ req[r].pc = "insert"
  /\ LET rec == req[r]
         id == uuidv4(r)
     IN /\ portfolios' = [portfolios EXCEPT ![id] = [owner |-> rec.user_id,
                                                     title |-> rec.title,
                                                     is_published |-> TRUE]]
        /\ req' = [req EXCEPT ![r] =
             [rec EXCEPT !.pc = "analytics", !.pid = id, !.acked = TRUE, !.rows = 1,
                         !.row = [portfolio_id |-> id, user_id |-> rec.user_id,
                                  title |-> rec.title]]]
  /\ UNCHANGED <<sockVars, netVars, users, emails, sections, analytics, contacts,
                 notifications>>

\* INSERT INTO analytics commits, or violates the foreign key on portfolios
CreateAnalytics(r) ==
  /\ req[r].kind = "create" /\ req[r].pc = "analytics"
  /\ IF HasRow(req[r].pid)
       THEN /\ analytics' = [analytics EXCEPT ![req[r].pid] = 0]
            /\ req' = [req EXCEPT ![r].pc = "emit"]
       ELSE /\ req' = [req EXCEPT ![r] = Reject(@, 500)]
            /\ UNCHANGED analytics
  /\ UNCHANGED <<sockVars, netVars, users, emails, sections, portfolios, contacts,
                 notifications>>

\* the continuation: emitPortfolioUpdate(portfolio_id, portfolio), then
\* res.status(201)
CreateEmit(r) ==
  /\ req[r].kind = "create" /\ req[r].pc = "emit"
  /\ Sent(emitPortfolioUpdate(Net, r, req[r].pid, req[r].row))
  /\ req' = [req EXCEPT ![r] = Finish(@, 201)]
  /\ UNCHANGED <<sockVars, dbVars>>

(* GET /api/portfolios/:portfolio_id *)

\* SELECT * FROM portfolios WHERE portfolio_id AND user_id resolves
GetRead(r) ==
  /\ req[r].kind = "get" /\ req[r].pc = "check"
  /\ req' = [req EXCEPT ![r] =
       IF portfolios[@.pid].owner = @.sub
         THEN Finish([@ EXCEPT !.row = portfolios[req[r].pid].title, !.rows = 1], 200)
         ELSE [Reject(@, 404) EXCEPT !.code = "PORTFOLIO_NOT_FOUND"]]
  /\ UNCHANGED <<sockVars, netVars, dbVars>>

(* /api/portfolios/:portfolio_id/sections *)

\* a request for a section route arrives: authenticateToken up to its await
SectionRequest(r, kind, token, portfolio_id, section_id, type) ==
  /\ Fresh(r)
  /\ kind \in SectionKinds
  /\ req' = [req EXCEPT ![r] = authenticateToken(
         [IdleReq EXCEPT !.kind = kind, !.pid = portfolio_id, !.sid = section_id,
                         !.type = type], token)]
  /\ UNCHANGED <<sockVars, netVars, dbVars>>

\* SectionCreateCheck that announces the section before the check is read
SectionCreateCheckAnnounces(r) ==
  /\ req[r].kind = "sectionCreate" /\ req[r].pc = "check"
  /\ Sent(emitPortfolioUpdate(Net, r, req[r].pid, <<"section_added", "undefined">>))
  /\ req' = [req EXCEPT ![r] =
       IF portfolios[@.pid].owner = @.sub THEN [@ EXCEPT !.pc = "insert"]
       ELSE [Reject(@, 404) EXCEPT !.code = "PORTFOLIO_NOT_FOUND"]]
  /\ UNCHANGED <<sockVars, dbVars>>

\* POST: the ownership SELECT resolves; the INSERT is issued
SectionCreateCheck(r) ==
  /\ req[r].kind = "sectionCreate" /\ req[r].pc = "check"
  /\ req' = [req EXCEPT ![r] =
       IF portfolios[@.pid].owner = @.sub THEN [@ EXCEPT !.pc = "insert"]
       ELSE [Reject(@, 404) EXCEPT !.code = "PORTFOLIO_NOT_FOUND"]]
  /\ UNCHANGED <<sockVars, netVars, dbVars>>

\* INSERT INTO sections ... RETURNING * commits under a fresh uuid, or
\* violates the foreign key on portfolios
SectionInsert(r) ==
  /\ req[r].kind = "sectionCreate" /\ req[r].pc = "insert"
  /\ IF HasRow(req[r].pid)
       THEN /\ sections' = [sections EXCEPT ![uuidv4(r)] = [pid |-> req[r].pid,
                                                            type |-> req[r].type]]
            /\ req' = [req EXCEPT ![r] =
                 [@ EXCEPT !.pc = "emit", !.sid = uuidv4(r), !.acked = TRUE, !.rows = 1,
                           !.row = <<"section_added", uuidv4(r)>>]]
       ELSE /\ req' = [req EXCEPT ![r] = Reject(@, 500)]
            /\ UNCHANGED sections
  /\ UNCHANGED <<sockVars, netVars, users, emails, portfolios, analytics, contacts,
                 notifications>>

\* SectionCheck whose SELECT does not join the owner of the portfolio
SectionCheckNoOwner(r) ==
  /\ req[r].kind \in {"sectionUpdate", "sectionDelete"} /\ req[r].pc = "check"
  /\ req' = [req EXCEPT ![r] =
       IF sections[@.sid].pid = @.pid
         THEN [@ EXCEPT !.pc = IF req[r].kind = "sectionUpdate" THEN "write" ELSE "delMedia"]
         ELSE [Reject(@, 404) EXCEPT !.code = "SECTION_NOT_FOUND"]]
  /\ UNCHANGED <<sockVars, netVars, dbVars>>

\* PUT / DELETE: the SELECT joining sections and portfolios on section_id,
\* portfolio_id and user_id resolves; the first write is issued
SectionCheck(r) ==
  /\ req[r].kind \in {"sectionUpdate", "sectionDelete"} /\ req[r].pc = "check"
  /\ req' = [req EXCEPT ![r] =
       IF sections[@.sid].pid = @.pid /\ portfolios[@.pid].owner = @.sub
         THEN [@ EXCEPT !.pc = IF req[r].kind = "sectionUpdate" THEN "write" ELSE "delMedia"]
         ELSE [Reject(@, 404) EXCEPT !.code = "SECTION_NOT_FOUND"]]
  /\ UNCHANGED <<sockVars, netVars, dbVars>>

\* UPDATE sections SET ... WHERE section_id RETURNING * commits; with no field
\* to set the statement is `UPDATE sections SET  WHERE ...` and is rejected
SectionUpdateWrite(r) ==
  /\ req[r].kind = "sectionUpdate" /\ req[r].pc = "write"
  /\ LET rec == req[r]
         hit == sections[rec.sid].pid # None
     IN IF rec.type = None
          THEN /\ req' = [req EXCEPT ![r] = Reject(rec, 500)]
               /\ UNCHANGED sections
          ELSE /\ sections' = IF hit THEN [sections EXCEPT ![rec.sid].type = rec.type]
                              ELSE sections
               /\ req' = [req EXCEPT ![r] =
                    [rec EXCEPT !.pc = "emit", !.acked = TRUE,
                                !.rows = IF hit THEN 1 ELSE 0,
                                !.row = <<"section_updated",
                                          IF hit THEN rec.sid ELSE "undefined">>]]
  /\ UNCHANGED <<sockVars, netVars, users, emails, portfolios, analytics, contacts,
                 notifications>>

\* DELETE FROM media_files WHERE section_id commits
SectionDeleteMedia(r) ==
  /\ req[r].kind = "sectionDelete" /\ req[r].pc = "delMedia"
  /\ req' = [req EXCEPT ![r].pc = "delSection"]
  /\ UNCHANGED <<sockVars, netVars, dbVars>>

\* DELETE FROM sections WHERE section_id commits
SectionDeleteRow(r) ==
  /\ req[r].kind = "sectionDelete" /\ req[r].pc = "delSection"
  /\ sections' = [sections EXCEPT ![req[r].sid] = [pid |-> None, type |-> None]]
  /\ req' = [req EXCEPT ![r] =
       [@ EXCEPT !.pc = "emit", !.acked = TRUE,
                 !.rows = IF sections[req[r].sid].pid # None THEN 1 ELSE 0,
                 !.row = <<"section_deleted", req[r].sid>>]]
  /\ UNCHANGED <<sockVars, netVars, users, emails, portfolios, analytics, contacts,
                 notifications>>

\* the continuation of a section write: emitPortfolioUpdate(portfolio_id,
\* {type, section}), then the response
SectionEmit(r) ==
  /\ req[r].kind \in SectionKinds /\ req[r].pc = "emit"
  /\ Sent(emitPortfolioUpdate(Net, r, req[r].pid, req[r].row))
  /\ req' = [req EXCEPT ![r] =
       Finish(@, CASE @.kind = "sectionCreate" -> 201
                   [] @.kind = "sectionUpdate" -> 200
                   [] OTHER -> 204)]
  /\ UNCHANGED <<sockVars, dbVars>>

(* POST /api/auth/register *)

\* a register request arrives: createUserInputSchema.parse, then the SELECT
\* for an existing user is issued
RegisterRequest(r, email) ==
  /\ Fresh(r)
  /\ req' = [req EXCEPT ![r] =
       LET rec == [IdleReq EXCEPT !.kind = "register", !.email = email]
       IN IF IsEmail(email) THEN [rec EXCEPT !.pc = "select"]
          ELSE [Reject(rec, 400) EXCEPT !.code = "VALIDATION_ERROR"]]
  /\ UNCHANGED <<sockVars, netVars, dbVars>>

\* SELECT user_id FROM users WHERE email = $1 resolves, $1 being the address
\* as the body gave it; without a row the INSERT is issued
RegisterSelect(r) ==
  /\ req[r].kind = "register" /\ req[r].pc = "select"
  /\ req' = [req EXCEPT ![r] =
       IF \E u \in users : emails[u] = @.email
         THEN [Reject(@, 400) EXCEPT !.code = "USER_ALREADY_EXISTS"]
         ELSE [@ EXCEPT !.pc = "insert"]]
  /\ UNCHANGED <<sockVars, netVars, dbVars>>

\* INSERT INTO users with email.toLowerCase().trim() commits under a fresh
\* uuid, or violates UNIQUE (email): the catch answers 500
RegisterInsert(r) ==
  /\ req[r].kind = "register" /\ req[r].pc = "insert"
  /\ LET stored == trim(toLowerCase(req[r].email)) IN
     IF \E u \in users : emails[u] = stored
       THEN /\ req' = [req EXCEPT ![r] =
                 [Reject(@, 500) EXCEPT !.code = "INTERNAL_SERVER_ERROR"]]
            /\ UNCHANGED <<users, emails>>
       ELSE /\ users' = users \cup {uuidv4(r)}
            /\ emails' = [emails EXCEPT ![uuidv4(r)] = stored]
            /\ req' = [req EXCEPT ![r] =
                 [@ EXCEPT !.pc = "emit", !.user_id = uuidv4(r), !.acked = TRUE,
                           !.rows = 1]]
  /\ UNCHANGED <<sockVars, netVars, sections, portfolios, analytics, contacts,
                 notifications>>

\* the continuation: jwt.sign, emitNotificationToUser(user.user_id, ...),
\* then res.status(201)
RegisterEmit(r) ==
  /\ req[r].kind = "register" /\ req[r].pc = "emit"
  /\ Sent(emitNotificationToUser(Net, r, req[r].user_id, "authentication"))
  /\ req' = [req EXCEPT ![r] = Finish(@, 201)]
  /\ UNCHANGED <<sockVars, dbVars>>

(* ---------------- specification ---------------- *)

Next ==
  \/ \E c \in Conns, token \in Tokens : authenticateSocket(c, token)
  \/ \E c \in Conns : OnConnection(c)
  \/ \E c \in Conns : SocketLookupFails(c)
  \/ \E c \in Conns, x \in JoinArgs : JoinPortfolio(c, x)
  \/ \E c \in Conns, x \in JoinArgs : LeavePortfolio(c, x)
  \/ \E c \in Conns : Disconnect(c)
  \/ \E r \in Reqs, in \in UpdateInputs : ProtectedRequest(r, "update", in[1], in[2], in[3])
  \/ \E r \in Reqs, in \in DeleteInputs : ProtectedRequest(r, "delete", in[1], in[2], in[3])
  \/ \E r \in Reqs : AuthenticateTokenDone(r)
  \/ \E r \in Reqs : QueryFails(r)
  \/ \E r \in Reqs : UpdateCheck(r)
  \/ \E r \in Reqs : UpdateWrite(r)
  \/ \E r \in Reqs : UpdateEmit(r)
  \/ \E r \in Reqs, p \in PortfolioIds : ViewRequest(r, p)
  \/ \E r \in Reqs : ViewWrite(r)
  \/ \E r \in Reqs : ViewEmit(r)
  \/ \E r \in Reqs, p \in PortfolioIds : ContactRequest(r, p)
  \/ \E r \in Reqs : ContactInsert(r)
  \/ \E r \in Reqs : ContactOwner(r)
  \/ \E r \in Reqs : ContactNotify(r)
  \/ \E r \in Reqs : ContactEmit(r)
  \/ \E r \in Reqs, in \in LoginInputs : LoginRequest(r, in[1], in[2])
  \/ \E r \in Reqs : LoginRead(r)
  \/ \E r \in Reqs : DeleteCheck(r)
  \/ \E r \in Reqs : DeleteSections(r)
  \/ \E r \in Reqs : DeleteAnalytics(r)
  \/ \E r \in Reqs : DeleteContacts(r)
  \/ \E r \in Reqs : DeletePortfolio(r)

Spec == Init /\ [][Next]_vars

\* io.to(...).emit throws inside the handler's try block (the adapter or the
\* packet encoder raises): control passes to the handler's catch, which
\* answers 500
EmitThrows(r) ==
  /\ req[r].pc = "emit"
  /\ req[r].kind = "view" => req[r].rows > 0
  /\ req' = [req EXCEPT ![r] = [Reject(@, 500) EXCEPT !.emitErr = TRUE]]
  /\ UNCHANGED <<sockVars, netVars, dbVars>>

NextFault == Next \/ \E r \in Reqs : EmitThrows(r)

SpecFault == Init /\ [][NextFault]_vars

\* the socket layer with its messages told apart, and one request to the view
\* counter as the source of events
NextRooms ==
  \/ \E c \in Conns, token \in Tokens : authenticateSocket(c, token)
  \/ \E c \in Conns : OnConnection(c)
  \/ \E c \in Conns : SocketLookupFails(c)
  \/ \E c \in Conns, x \in Payloads : JoinMessage(c, x)
  \/ \E c \in Conns, x \in Payloads : LeaveMessage(c, x)
  \/ \E c \in Conns : Disconnect(c)
  \/ \E p \in PortfolioIds : ViewRequest(1, p)
  \/ ViewWrite(1)
  \/ ViewEmit(1)
  \/ QueryFails(1)

SpecRooms == Init /\ [][NextRooms]_vars

\* create bodies behind a bearer token: <<token, body.user_id, body.title>>
CreateInputs == {<<"none", "u1", "t1">>, <<"u1", "u1", "t1">>, <<"u1", "u2", "t1">>,
                 <<"u1", "u1", "">>}

\* sockets that subscribe and join, and one request that creates a portfolio;
\* a client can join the room of a created portfolio once its row exists
NextCreate ==
  \/ \E c \in Conns, token \in Tokens : authenticateSocket(c, token)
  \/ \E c \in Conns : OnConnection(c)
  \/ \E c \in Conns : SocketLookupFails(c)
  \/ \E c \in Conns : SubscribeMessage(c, "portfolio/updates")
  \/ \E c \in Conns, p \in AllPortfolioIds : HasRow(p) /\ JoinPortfolio(c, p)
  \/ \E c \in Conns : Disconnect(c)
  \/ \E in \in CreateInputs : CreateRequest(1, in[1], in[2], in[3])
  \/ AuthenticateTokenDone(1)
  \/ CreateInsert(1)
  \/ CreateAnalytics(1)
  \/ CreateEmit(1)
  \/ QueryFails(1)

SpecCreate == Init /\ [][NextCreate]_vars

\* the live preview: sockets that join portfolio rooms and relay previews
NextRelay ==
  \/ \E c \in Conns, token \in Tokens : authenticateSocket(c, token)
  \/ \E c \in Conns : OnConnection(c)
  \/ \E c \in Conns : SocketLookupFails(c)
  \/ \E c \in Conns, p \in PortfolioIds : JoinPortfolio(c, p)
  \/ \E c \in Conns, p \in PortfolioIds : LeavePortfolio(c, p)
  \/ \E c \in Conns, data \in RelayInputs : PortfolioUpdateMessage(c, data)
  \/ \E c \in Conns : Disconnect(c)

SpecRelay == Init /\ [][NextRelay]_vars

\* the view counter under concurrent requests, with subscribers that read
\* what is written to them at their own pace
NextView ==
  \/ \E c \in Conns, token \in Tokens : authenticateSocket(c, token)
  \/ \E c \in Conns : OnConnection(c)
  \/ \E c \in Conns : SocketLookupFails(c)
  \/ \E c \in Conns, p \in PortfolioIds : JoinPortfolio(c, p)
  \/ \E c \in Conns : Receive(c)
  \/ \E c \in Conns : Disconnect(c)
  \/ \E r \in Reqs, p \in PortfolioIds : ViewRequest(r, p)
  \/ \E r \in Reqs : ViewWrite(r)
  \/ \E r \in Reqs : ViewEmit(r)
  \/ \E r \in Reqs : QueryFails(r)

SpecView == Init /\ [][NextView]_vars

\* sockets of either user that join and leave the rooms of both portfolios,
\* and one title update by the owner as the source of events
JoinInputs == {<<"string", p>> : p \in PortfolioIds}
OwnerUpdates == {<<"u1", "p1", "t1">>, <<"u2", "p2", "t1">>}

NextJoin ==
  \/ \E c \in Conns, token \in Tokens : authenticateSocket(c, token)
  \/ \E c \in Conns : OnConnection(c)
  \/ \E c \in Conns : SocketLookupFails(c)
  \/ \E c \in Conns, x \in JoinInputs : JoinMessage(c, x)
  \/ \E c \in Conns, x \in JoinInputs : LeaveMessage(c, x)
  \/ \E c \in Conns : Disconnect(c)
  \/ \E in \in OwnerUpdates : ProtectedRequest(1, "update", in[1], in[2], in[3])
  \/ AuthenticateTokenDone(1)
  \/ UpdateCheck(1)
  \/ UpdateWrite(1)
  \/ UpdateEmit(1)
  \/ QueryFails(1)

SpecJoin == Init /\ [][NextJoin]_vars

\* requests of the owner-gated routes: <<token, portfolio_id>> for GET and
\* DELETE, <<token, portfolio_id, section_id, type>> for the section routes
\* (type "" fails z.string().min(1); None: no field in the body)
GetInputs == {<<"u1", "p1">>, <<"u2", "p1">>}
SectionCreateInputs == {<<"u1", "p1", None, "Text">>, <<"u2", "p1", None, "Text">>,
                        <<"u1", "p1", None, "">>}
SectionUpdateInputs == {<<"u1", "p1", "s1", "Image">>, <<"u2", "p1", "s1", "Image">>,
                        <<"u1", "p2", "s1", "Image">>, <<"u1", "p1", "s1", "">>,
                        <<"u1", "p1", "s1", None>>, <<"bad", "p1", "s1", "Image">>}
SectionDeleteInputs == {<<"u1", "p1", "s1", None>>, <<"u2", "p1", "s1", None>>}

\* the REST routes on portfolios and their sections, two requests at a time
NextRest ==
  \/ \E r \in Reqs, in \in CreateInputs : CreateRequest(r, in[1], in[2], in[3])
  \/ \E r \in Reqs, in \in GetInputs : ProtectedRequest(r, "get", in[1], in[2], None)
  \/ \E r \in Reqs, in \in UpdateInputs : ProtectedRequest(r, "update", in[1], in[2], in[3])
  \/ \E r \in Reqs, in \in DeleteInputs : ProtectedRequest(r, "delete", in[1], in[2], in[3])
  \/ \E r \in Reqs, in \in SectionCreateInputs :
       SectionRequest(r, "sectionCreate", in[1], in[2], in[3], in[4])
  \/ \E r \in Reqs, in \in SectionUpdateInputs :
       SectionRequest(r, "sectionUpdate", in[1], in[2], in[3], in[4])
  \/ \E r \in Reqs, in \in SectionDeleteInputs :
       SectionRequest(r, "sectionDelete", in[1], in[2], in[3], in[4])
  \/ \E r \in Reqs, p \in PortfolioIds : ContactRequest(r, p)
  \/ \E r \in Reqs : AuthenticateTokenDone(r)
  \/ \E r \in Reqs : QueryFails(r)
  \/ \E r \in Reqs : CreateInsert(r)
  \/ \E r \in Reqs : CreateAnalytics(r)
  \/ \E r \in Reqs : CreateEmit(r)
  \/ \E r \in Reqs : GetRead(r)
  \/ \E r \in Reqs : UpdateCheck(r)
  \/ \E r \in Reqs : UpdateWrite(r)
  \/ \E r \in Reqs : UpdateEmit(r)
  \/ \E r \in Reqs : DeleteCheck(r)
  \/ \E r \in Reqs : DeleteSections(r)
  \/ \E r \in Reqs : DeleteAnalytics(r)
  \/ \E r \in Reqs : DeleteContacts(r)
  \/ \E r \in Reqs : DeletePortfolio(r)
  \/ \E r \in Reqs : SectionCreateCheck(r)
  \/ \E r \in Reqs : SectionInsert(r)
  \/ \E r \in Reqs : SectionCheck(r)
  \/ \E r \in Reqs : SectionUpdateWrite(r)
  \/ \E r \in Reqs : SectionDeleteMedia(r)
  \/ \E r \in Reqs : SectionDeleteRow(r)
  \/ \E r \in Reqs : SectionEmit(r)
  \/ \E r \in Reqs : ContactInsert(r)
  \/ \E r \in Reqs : ContactOwner(r)
  \/ \E r \in Reqs : ContactNotify(r)
  \/ \E r \in Reqs : ContactEmit(r)

SpecRest == Init /\ [][NextRest]_vars

\* register bodies: the address of the seeded user u1, the same address in
\* upper case, a new address in lower and in upper case, and one with a
\* leading blank
RegisterInputs == {<<"u", "@", "x">>, <<"U", "@", "x">>, <<"n", "@", "x">>,
                   <<"n", "@", "X">>, <<" ", "n", "@", "x">>}

\* registrations, two at a time, with every query resolving
NextRegister ==
  \/ \E r \in Reqs, email \in RegisterInputs : RegisterRequest(r, email)
  \/ \E r \in Reqs : RegisterSelect(r)
  \/ \E r \in Reqs : RegisterInsert(r)
  \/ \E r \in Reqs : RegisterEmit(r)

SpecRegister == Init /\ [][NextRegister]_vars

(* ---------------- properties ---------------- *)

Success == {200, 201, 204}
MutationKinds == {"update", "contact", "view", "delete"}
\* the events about a shared resource of a portfolio
SharedEvents == {"portfolio_updates", "analytics/updates", "contact/form/submit"}

\* how many times event i of request r was written to socket c
Count(c, r, i) == Cardinality({k \in DOMAIN inbox[c] : inbox[c][k] = <<r, i>>})

InNoRoom(c) == \A room \in RoomIds : c \notin rooms[room]

\* C1: a connection whose handshake authentication failed (token missing,
\* token failing verification, or user_id without a row in users) is a member
\* of no room, personal or portfolio, in any state from then on.
C1_RefusedInNoRoom ==
  \A c \in Conns : conn[c].st = "refused" => InNoRoom(c)

\* a handshake was refused because its user_id has no row, while another
\* socket is connected and sits in its rooms
C1_Witness ==
  \E c, d \in Conns :
    /\ conn[c].st = "refused" /\ conn[c].err = "Invalid token"
    /\ Live(d) /\ d \in rooms[PortfolioRoom("p1")]

\* C2: a title update committed by PUT /api/portfolios/p on the owner's behalf
\* dispatches exactly one portfolio-update event, to the room of p, carrying
\* the new title; each socket in that room at the dispatch receives it exactly
\* once, and a socket outside the room receives nothing of it.
C2_UpdateDispatchedOnceToRoom ==
  \A r \in Reqs :
    (req[r].kind = "update" /\ req[r].pc = "done" /\ req[r].status = 200 /\ req[r].rows = 1)
      => /\ Len(dispatchLog[r]) = 1
         /\ dispatchLog[r][1].event = "portfolio_updates"
         /\ dispatchLog[r][1].target = PortfolioRoom(req[r].pid)
         /\ dispatchLog[r][1].payload = req[r].title
         /\ \A c \in Conns :
              Count(c, r, 1) = IF c \in dispatchLog[r][1].members THEN 1 ELSE 0

\* socket a (user u1) joined the room of p1 and received the update; socket b
\* is connected, never was in that room, and received nothing
C2_Witness ==
  \E r \in Reqs, a, b \in Conns :
    /\ req[r].kind = "update" /\ req[r].pc = "done" /\ req[r].status = 200 /\ req[r].rows = 1
    /\ Live(a) /\ conn[a].user = "u1" /\ inbox[a] = << <<r, 1>> >>
    /\ Live(b) /\ b \notin dispatchLog[r][1].members /\ inbox[b] = <<>>

\* C3: a contact-form submission on a portfolio owned by u results in exactly
\* one notification event, delivered to the personal room of u, and in no event
\* delivered to any other room or to any connection outside that personal room.
C3_ContactOnlyToOwnerRoom ==
  \A r \in Reqs :
    (req[r].kind = "contact" /\ req[r].pc = "done" /\ req[r].status = 201
       /\ req[r].user_id # None)
      => /\ Cardinality({i \in DOMAIN dispatchLog[r] :
                           dispatchLog[r][i].event = "notification"}) = 1
         /\ \A i \in DOMAIN dispatchLog[r] :
              /\ dispatchLog[r][i].target = UserRoom(req[r].user_id)
              /\ \A c \in Conns : Count(c, r, i) > 0 => c \in dispatchLog[r][i].members

\* C4: no event of a mutation is dispatched or observable before the database
\* write of its handler has resolved successfully: whenever an event of a
\* mutation request was emitted or sits in an inbox, the write was acknowledged
\* (and, for the contact form, the notification row is stored).
C4_EmitAfterWrite ==
  \A r \in Reqs :
    (req[r].kind \in MutationKinds
       /\ (Len(dispatchLog[r]) > 0 \/ \E c \in Conns : \E k \in DOMAIN inbox[c] : inbox[c][k][1] = r))
      => /\ req[r].acked
         /\ req[r].kind = "view" => req[r].rows = 1
         /\ req[r].kind = "contact" =>
              [user |-> dispatchLog[r][1].target[2], req |-> r] \in notifications

\* a subscriber of the room of p1 holds the analytics event of a view whose
\* increment is stored
C4_Witness ==
  \E r \in Reqs, c \in Conns :
    /\ req[r].kind = "view" /\ req[r].acked /\ analytics["p1"] > 0
    /\ <<r, 1>> \in {inbox[c][k] : k \in DOMAIN inbox[c]}

\* C5: an error raised while emitting the event of a mutation never changes the
\* outcome of that mutation: the caller still receives the success response.
C5_EmitErrorKeepsSuccess ==
  \A r \in Reqs :
    (req[r].emitErr /\ req[r].pc = "done") => req[r].status \in Success

\* C6: every state-changing REST operation that succeeds triggers exactly one
\* event dispatch, and a successful operation that changes no durable state
\* (login) triggers none.
C6_OneDispatchPerMutation ==
  \A r \in Reqs :
    (req[r].pc = "done" /\ req[r].status \in Success)
      => Len(dispatchLog[r]) = IF req[r].rows > 0 THEN 1 ELSE 0

\* C7: every room's membership contains only live connections; a connection
\* that disconnected is in no room in the very state in which it is no longer
\* live.
C7_MembersAreLive ==
  \A room \in RoomIds : \A c \in rooms[room] : Live(c)

\* a socket that received an event as a room member has disconnected, while
\* another socket still sits in a portfolio room
C7_Witness ==
  \E c, d \in Conns :
    /\ conn[c].st = "closed" /\ inbox[c] # <<>>
    /\ Live(d) /\ \E p \in PortfolioIds : d \in rooms[PortfolioRoom(p)]

\* C8: with a disconnect racing a dispatch, every step that writes an event to
\* socket c finds c live and in the addressed room before the step and still
\* live after it, and every step in which c stops being live writes nothing to
\* c and leaves c in no room.
C8_DisconnectVsDispatch ==
  [][\A c \in Conns :
       /\ inbox'[c] # inbox[c] =>
            /\ Live(c) /\ conn'[c].st = "open"
            /\ Len(inbox'[c]) > Len(inbox[c])
            /\ \A k \in (Len(inbox[c]) + 1)..Len(inbox'[c]) :
                 LET e == dispatchLog'[inbox'[c][k][1]][inbox'[c][k][2]]
                 IN c \in (IF e.target = ALL THEN {d \in Conns : Live(d)} ELSE rooms[e.target])
       /\ (Live(c) /\ conn'[c].st # "open") =>
            /\ inbox'[c] = inbox[c]
            /\ \A room \in RoomIds : c \notin rooms'[room]]_vars

\* a request has committed its write and is about to emit to the room of p1,
\* whose former member c has just disconnected holding an earlier event
C8_Witness ==
  \E r \in Reqs, c \in Conns :
    /\ req[r].pc = "emit" /\ req[r].pid = "p1"
    /\ conn[c].st = "closed" /\ inbox[c] # <<>>
    /\ \E q \in Reqs : \E i \in DOMAIN dispatchLog[q] :
         dispatchLog[q][i].target = PortfolioRoom("p1") /\ c \in dispatchLog[q][i].members

\* C9: once a connection has disconnected it stays disconnected, never enters
\* a room again, and no event dispatched afterwards is written to it.
C9_DisconnectedIsTerminal ==
  [][\A c \in Conns :
       conn[c].st = "closed" =>
         /\ conn'[c].st = "closed"
         /\ inbox'[c] = inbox[c]
         /\ \A room \in RoomIds : c \notin rooms'[room]]_vars

\* after socket c disconnected, an event was broadcast to every connected
\* socket and reached a live socket d, not c
C9_Witness ==
  \E r \in Reqs, c, d \in Conns :
    /\ conn[c].st = "closed"
    /\ Len(dispatchLog[r]) = 2 /\ dispatchLog[r][2].target = ALL
    /\ d \in dispatchLog[r][2].members /\ Count(d, r, 2) = 1 /\ Count(c, r, 2) = 0

\* C10: an event is delivered exactly to the sockets that are in the addressed
\* room at the instant of its dispatch, once each: a socket that joins later
\* never receives it, nor does one that left before.
C10_DeliveredToMembersAtDispatch ==
  \A r \in Reqs : \A i \in DOMAIN dispatchLog[r] : \A c \in Conns :
    Count(c, r, i) = IF c \in dispatchLog[r][i].members THEN 1 ELSE 0

\* socket c joined the room of p1 after an event was dispatched to that room
\* and holds nothing of it, while member d received it
C10_Witness ==
  \E r \in Reqs, c, d \in Conns :
    /\ Len(dispatchLog[r]) > 0 /\ dispatchLog[r][1].target = PortfolioRoom("p1")
    /\ c \notin dispatchLog[r][1].members /\ c \in rooms[PortfolioRoom("p1")]
    /\ Count(c, r, 1) = 0
    /\ d \in dispatchLog[r][1].members /\ Count(d, r, 1) = 1

\* the room a join_portfolio / leave_portfolio message with payload x names
RoomOf(x) == PortfolioRoom(TemplateString(x))
\* the latest message received from socket c
Latest(c) == recent[c][Len(recent[c])]

\* what decides an authentication: the cause of its failure, or "identity"
Cause(token) ==
  IF token = "none" THEN "missing"
  ELSE IF token = "bad" THEN "invalid"
  ELSE IF token \notin users THEN "not found"
  ELSE "identity"

\* the refusal of a handshake for each cause of failure
SocketFailure(cause) ==
  CASE cause = "missing" -> "Authentication token required"
    [] cause = "invalid" -> "Authentication failed"
    [] cause = "not found" -> "Invalid token"

\* the answer to a protected request for each cause of failure
RestFailure(cause) ==
  CASE cause = "missing" -> <<401, "AUTH_TOKEN_REQUIRED">>
    [] cause = "invalid" -> <<403, "AUTH_TOKEN_INVALID">>
    [] cause = "not found" -> <<401, "AUTH_TOKEN_INVALID">>

\* C11: every event about a shared resource of portfolio p (portfolio update,
\* analytics update, contact form submitted) is dispatched to the room of p and
\* to nothing else: only sockets in that room at the dispatch receive it.
C11_SharedEventsToPortfolioRoom ==
  \A r \in Reqs : \A i \in DOMAIN dispatchLog[r] :
    dispatchLog[r][i].event \in SharedEvents =>
      /\ dispatchLog[r][i].target = PortfolioRoom(req[r].pid)
      /\ \A c \in Conns : Count(c, r, i) > 0 => c \in dispatchLog[r][i].members

\* C12: every authenticated live socket is in the personal room of its own
\* user_id, from the connection handler until it disconnects, whatever join
\* and leave messages with whatever payloads it has sent.
C12_LiveInOwnPersonalRoom ==
  \A c \in Conns : Live(c) => c \in rooms[UserRoom(conn[c].user)]

\* the socket of u1 has sent leave_portfolio with its own user id as the
\* payload, twice, and sits in its personal room and in no other
C12_Witness ==
  \E c \in Conns :
    /\ Live(c) /\ conn[c].user = "u1"
    /\ recent[c] = << <<"leave_portfolio", <<"string", "u1">> >>,
                      <<"leave_portfolio", <<"string", "u1">> >> >>
    /\ \A room \in RoomIds : c \in rooms[room] <=> room = UserRoom("u1")

\* C13: joining is idempotent: a socket that has sent the same join twice in
\* a row is a member of the room, and every event dispatched to a room while
\* the socket was in it was written to the socket exactly once.
C13_JoinIdempotent ==
  \A c \in Conns :
    /\ \A x \in Payloads :
         recent[c] = << <<"join_portfolio", x>>, <<"join_portfolio", x>> >>
           => c \in rooms[RoomOf(x)]
    /\ \A r \in Reqs : \A i \in DOMAIN dispatchLog[r] :
         Count(c, r, i) = IF c \in dispatchLog[r][i].members THEN 1 ELSE 0

\* a socket whose last two messages were join_portfolio for p1 holds the one
\* event dispatched to the room of p1, once
C13_Witness ==
  \E c \in Conns :
    /\ recent[c] = << <<"join_portfolio", <<"string", "p1">> >>,
                      <<"join_portfolio", <<"string", "p1">> >> >>
    /\ c \in rooms[PortfolioRoom("p1")]
    /\ Len(dispatchLog[1]) = 1 /\ dispatchLog[1][1].target = PortfolioRoom("p1")
    /\ inbox[c] = << <<1, 1>> >>

\* C14: a leave_portfolio message from a socket that is not in the room it
\* names changes no room's membership, writes nothing to any socket and leaves
\* the socket connected.
C14_LeaveOfNonMember ==
  [][\A c \in Conns :
       (/\ recent'[c] # recent[c] /\ recent'[c] # <<>>
        /\ recent'[c][Len(recent'[c])][1] = "leave_portfolio"
        /\ c \notin rooms[PortfolioRoom(TemplateString(recent'[c][Len(recent'[c])][2]))])
         => rooms' = rooms /\ conn' = conn /\ inbox' = inbox]_vars

\* socket c has sent leave_portfolio for p1 twice in a row (the second time it
\* was not in the room), is still connected and in the room it joined with an
\* absent id, and socket d is still in the room of p1
C14_Witness ==
  \E c, d \in Conns :
    /\ c # d /\ Live(c)
    /\ recent[c] = << <<"leave_portfolio", <<"string", "p1">> >>,
                      <<"leave_portfolio", <<"string", "p1">> >> >>
    /\ c \in rooms[PortfolioRoom("undefined")]
    /\ d \in rooms[PortfolioRoom("p1")]

\* C15: two events that one handler dispatched in sequence and that both
\* reached a socket (the contact handler's notification, then its
\* contact-form-submitted event) sit in that socket's channel in the order in
\* which they were issued.
C15_SameHandlerInIssueOrder ==
  \A c \in Conns : \A k, l \in DOMAIN inbox[c] :
    (inbox[c][k][1] = inbox[c][l][1] /\ inbox[c][k][2] < inbox[c][l][2]) => k < l

\* the owner's socket holds the notification of a contact form and then its
\* contact-form-submitted event, after an event of another request
C15_Witness ==
  \E r, q \in Reqs, c \in Conns :
    /\ q # r /\ req[r].kind = "contact" /\ Len(dispatchLog[r]) = 2
    /\ dispatchLog[r][1].event = "notification"
    /\ dispatchLog[r][2].event = "contact/form/submit"
    /\ inbox[c] = << <<q, 1>>, <<r, 1>>, <<r, 2>> >>

\* C16: while the authentication of a socket is pending (the users lookup is
\* awaited) the socket is in no room and no join or leave message of it has
\* been processed.
C16_NoRoomWhileAuthPending ==
  \A c \in Conns : conn[c].st = "auth" => InNoRoom(c) /\ recent[c] = <<>>

\* the lookup for a second handshake with the token of u1 is pending while the
\* first socket of u1 has joined the room of p1
C16_Witness ==
  \E c, d \in Conns :
    /\ conn[c].st = "auth" /\ conn[c].user = "u1"
    /\ Live(d) /\ conn[d].user = "u1" /\ d \in rooms[PortfolioRoom("p1")]
    /\ rooms[UserRoom("u1")] = {d}

\* C17: authentication yields the identity exactly when the credential is
\* present, verifies and names a user of the store, and otherwise the failure of
\* its cause, a different one for each of the three causes; it makes at most one
\* lookup; the socket handshake and the protected REST request decide alike.
C17_AuthenticationDecides ==
  [][/\ \A c \in Conns :
          \* without a verifying token: refused at once, by cause; with one: one lookup
       /\ \A token \in Tokens : authenticateSocket(c, token) =>
            IF Cause(token) \in {"missing", "invalid"}
              THEN conn'[c].st = "refused" /\ conn'[c].err = SocketFailure(Cause(token))
              ELSE conn'[c].st = "auth" /\ conn'[c].user = token
          \* the lookup is over: the identity, or the refusal for its cause
       /\ (conn[c].st = "auth" /\ conn'[c].st \in {"open", "refused"}) =>
            IF Cause(conn[c].user) = "identity"
              THEN conn'[c].st = "open" /\ conn'[c].user = conn[c].user
              ELSE conn'[c].st = "refused"
                   /\ conn'[c].err = SocketFailure(Cause(conn[c].user))
          \* no second lookup
       /\ conn'[c].st = "auth" => conn[c].st \in {"idle", "auth"}
     /\ \A r \in Reqs :
       /\ \A kind \in AuthKinds, token \in Tokens, p \in PortfolioIds, title \in {None, "", "t1"} :
            ProtectedRequest(r, kind, token, p, title) =>
              IF Cause(token) \in {"missing", "invalid"}
                THEN /\ req'[r].pc = "done"
                     /\ <<req'[r].status, req'[r].code>> = RestFailure(Cause(token))
                ELSE req'[r].pc = "auth" /\ req'[r].sub = token
       /\ (req[r].pc = "auth" /\ req'[r].pc # "auth") =>
            IF Cause(req[r].sub) = "identity"
              THEN req'[r].code = None /\ req'[r].status \notin {401, 403}
              ELSE /\ req'[r].pc = "done"
                   /\ <<req'[r].status, req'[r].code>> = RestFailure(Cause(req[r].sub))
       /\ req'[r].pc = "auth" => req[r].pc \in {"idle", "auth"}]_vars

\* C18: a join_portfolio or leave_portfolio message whose payload names no
\* portfolio (an absent id, an unknown id) leaves the socket out of the room
\* the payload would name and is answered with an error event on the socket
\* (an event that no request dispatched).
C18_MalformedRoomRejected ==
  \A c \in Conns :
    (recent[c] # <<>> /\ ~NamesPortfolio(Latest(c)[2]))
      => /\ c \notin rooms[RoomOf(Latest(c)[2])]
         /\ \E k \in DOMAIN inbox[c] : inbox[c][k][1] \notin Reqs

\* C19: delivery is at most once: over the whole execution the event of a
\* dispatch is written to a socket at most one time, also when the socket is in
\* several rooms, and nothing but dispatched events is written.
C19_AtMostOnce ==
  \A c \in Conns :
    /\ \A k \in DOMAIN inbox[c] : inbox[c][k][2] \in DOMAIN dispatchLog[inbox[c][k][1]]
    /\ \A r \in Reqs : \A i \in DOMAIN dispatchLog[r] : Count(c, r, i) <= 1

\* a socket that sits in its personal room and in both portfolio rooms holds
\* the broadcast of a contact form once
C19_Witness ==
  \E r \in Reqs, c \in Conns :
    /\ Live(c) /\ c \in rooms[UserRoom(conn[c].user)]
    /\ c \in rooms[PortfolioRoom("p1")] /\ c \in rooms[PortfolioRoom("p2")]
    /\ Len(dispatchLog[r]) = 2 /\ dispatchLog[r][2].target = ALL
    /\ c \in dispatchLog[r][2].members /\ Count(c, r, 2) = 1

\* C20: every notification event is dispatched to a personal room, never to a
\* portfolio room or to all sockets, and a personal room holds only sockets
\* authenticated as its user: only they receive the notification.
C20_NotificationsToUserRoomOnly ==
  /\ \A r \in Reqs : \A i \in DOMAIN dispatchLog[r] :
       dispatchLog[r][i].event = "notification" =>
         /\ dispatchLog[r][i].target \in {UserRoom(u) : u \in Subjects}
         /\ \A c \in Conns : Count(c, r, i) > 0 => c \in dispatchLog[r][i].members
  /\ \A u \in Subjects : \A c \in rooms[UserRoom(u)] : conn[c].user = u

\* the notification of a contact form on p1 reached the socket of owner u1 and
\* not the socket of u2, which was connected (it holds the broadcast that the
\* same handler made next)
C20_Witness ==
  \E r \in Reqs, c, d \in Conns :
    /\ Len(dispatchLog[r]) = 2 /\ dispatchLog[r][1].event = "notification"
    /\ dispatchLog[r][1].target = UserRoom("u1")
    /\ Count(c, r, 1) = 1 /\ Count(d, r, 1) = 0 /\ Count(d, r, 2) = 1
    /\ Live(d) /\ conn[d].user = "u2"

\* the lifecycle state of socket c: Connecting while the handshake awaits the
\* users lookup, Authenticated or Subscribed once connected (Subscribed while
\* it sits in a portfolio room), Disconnected after a refusal or a close
InPortfolioRoom(c) == \E room \in RoomIds : room[1] = "portfolio" /\ c \in rooms[room]
Lifecycle(c) ==
  CASE conn[c].st = "idle" -> "None"
    [] conn[c].st = "auth" -> "Connecting"
    [] conn[c].st = "open" -> IF InPortfolioRoom(c) THEN "Subscribed" ELSE "Authenticated"
    [] OTHER -> "Disconnected"

\* C21: a connection's lifecycle makes only these moves: Connecting to
\* Authenticated when the handshake's user has a row, Connecting to
\* Disconnected otherwise (a handshake refused on its token alone is
\* Disconnected at once), Authenticated to Subscribed and back as it joins a
\* portfolio room and leaves its last one, and any live state to Disconnected,
\* which leaves the socket in no room; nothing leaves Disconnected.
C21_LifecycleTransitions ==
  [][\A c \in Conns :
       LET from == Lifecycle(c)
           to == Lifecycle(c)'
       IN /\ from # to =>
               <<from, to>> \in {<<"None", "Connecting">>, <<"None", "Disconnected">>,
                                 <<"Connecting", "Authenticated">>,
                                 <<"Connecting", "Disconnected">>,
                                 <<"Authenticated", "Subscribed">>,
                                 <<"Subscribed", "Authenticated">>,
                                 <<"Authenticated", "Disconnected">>,
                                 <<"Subscribed", "Disconnected">>}
          /\ (from = "Connecting" /\ to = "Authenticated") => conn[c].user \in users
          /\ (from = "None" /\ to = "Disconnected") => conn'[c].err # None
          /\ to = "Disconnected" => InNoRoom(c)']_vars

\* one socket went through Subscribed and back to Authenticated and holds an
\* event of the room it left; another was Subscribed when its transport closed
C21_Witness ==
  \E c, d \in Conns :
    /\ Lifecycle(c) = "Authenticated" /\ Len(inbox[c]) > 0
    /\ recent[c] # <<>> /\ Latest(c)[1] = "leave_portfolio"
    /\ conn[d].st = "closed"
    /\ Len(dispatchLog[1]) > 0 /\ d \in dispatchLog[1][1].members

\* socket c is connected and the latest message it sent is a subscribe for
\* the portfolio-updates channel
Subscribed(c) ==
  Live(c) /\ recent[c] # <<>> /\ Latest(c) = <<"subscribe", "portfolio/updates">>

\* C22: when POST /api/portfolios answers 201, every client that was connected
\* and had subscribed to the portfolio-updates channel holds a portfolio-updates
\* event of that request whose payload carries the id and the title of the
\* created portfolio.
C22_SubscriberReceivesCreated ==
  [][\A r \in Reqs :
       (req[r].kind = "create" /\ req[r].pc # "done"
          /\ req'[r].pc = "done" /\ req'[r].status = 201)
         => \A c \in Conns :
              Subscribed(c) =>
                \E k \in DOMAIN inbox'[c] :
                  LET m == inbox'[c][k] IN
                    /\ m[1] = r
                    /\ dispatchLog'[r][m[2]].event \in {"portfolio/updates", "portfolio_updates"}
                    /\ dispatchLog'[r][m[2]].payload.portfolio_id = req'[r].pid
                    /\ dispatchLog'[r][m[2]].payload.title = req'[r].title]_vars

\* C27: a portfolio_update message of socket c for portfolio p is written, as
\* live_preview_update, to exactly the sockets that sit in the room of p other
\* than c, whether or not c sits in that room or owns p; c never gets it.
C27_RelayToOthers ==
  [][LET n == Len(dispatchLog[Relay]) IN
       (Len(dispatchLog'[Relay]) = n + 1
          /\ dispatchLog'[Relay][n + 1].event = "live_preview_update")
         => LET e == dispatchLog'[Relay][n + 1] IN
              /\ e.target = PortfolioRoom(e.payload)
              /\ \A d \in Conns :
                   inbox'[d] = IF d \in rooms[e.target] /\ d # e.from
                                 THEN Append(inbox[d], <<Relay, n + 1>>)
                                 ELSE inbox[d]]_vars

\* socket c of user u2, outside the room of p1 (a portfolio of u1), relayed a
\* preview of p1 that the member d holds and c does not; then d relayed one
\* as a member and does not hold its own
C27_Witness ==
  \E c, d \in Conns :
    /\ Len(dispatchLog[Relay]) = 2
    /\ dispatchLog[Relay][1].from = c /\ dispatchLog[Relay][1].target = PortfolioRoom("p1")
    /\ Live(c) /\ conn[c].user = "u2" /\ c \notin rooms[PortfolioRoom("p1")]
    /\ dispatchLog[Relay][2].from = d /\ dispatchLog[Relay][2].target = PortfolioRoom("p1")
    /\ Live(d) /\ d \in rooms[PortfolioRoom("p1")]
    /\ inbox[d] = << <<Relay, 1>> >> /\ inbox[c] = <<>>

\* C23: a member that does not read what is written to it never holds up a
\* fan-out: the step that dispatches an event writes it to every socket that
\* is in the room at that moment, whatever any of them has left unread, waits
\* for no client to read, and is the step in which the handler answers.
C23_SlowMemberNoStall ==
  [][\A r \in Reqs :
       LET n == Len(dispatchLog[r]) IN
         Len(dispatchLog'[r]) = n + 1
           => /\ \A c \in Conns :
                   inbox'[c] = IF c \in rooms[dispatchLog'[r][n + 1].target]
                                 THEN Append(inbox[c], <<r, n + 1>>) ELSE inbox[c]
              /\ taken' = taken
              /\ req'[r].pc = "done"]_vars

\* socket 1 has read nothing of the two events written to it; socket 2, in
\* the same room, holds the second of them, whose handler has answered
C23_Witness ==
  \E r \in Reqs :
    /\ Len(inbox[1]) = 2 /\ taken[1] = 0 /\ inbox[1][2] = <<r, 1>>
    /\ 1 \in dispatchLog[r][1].members /\ 2 \in dispatchLog[r][1].members
    /\ Count(2, r, 1) = 1 /\ taken[2] = Len(inbox[2])
    /\ req[r].pc = "done" /\ req[r].status = 200

\* the view requests whose increment is stored
Counted(p) == {r \in Reqs : req[r].kind = "view" /\ req[r].pid = p /\ req[r].rows = 1}
\* the page_views values of the analytics events socket c holds for portfolio
\* p, in the order they were written to it
Observed(c, p) ==
  LET ks == {k \in DOMAIN inbox[c] :
               /\ inbox[c][k][1] \in Reqs
               /\ dispatchLog[inbox[c][k][1]][inbox[c][k][2]].event = "analytics/updates"
               /\ dispatchLog[inbox[c][k][1]][inbox[c][k][2]].target = PortfolioRoom(p)}
  IN [k \in ks |-> dispatchLog[inbox[c][k][1]][inbox[c][k][2]].payload]

\* each stored increment adds exactly 1, and a view that has answered emitted
\* exactly one analytics event, to the room of its portfolio, carrying the
\* count its own increment produced
ViewCounts ==
  /\ \A p \in PortfolioIds :
       analytics[p] >= 0 => analytics[p] = Cardinality(Counted(p))
  /\ \A r \in Reqs :
       (req[r].kind = "view" /\ req[r].pc = "done" /\ req[r].status = 200 /\ req[r].rows = 1)
         => /\ Len(dispatchLog[r]) = 1
            /\ dispatchLog[r][1].event = "analytics/updates"
            /\ dispatchLog[r][1].target = PortfolioRoom(req[r].pid)
            /\ dispatchLog[r][1].payload = req[r].row
            /\ req[r].row \in 1..analytics[req[r].pid]
  /\ \A r1, r2 \in Reqs :
       (r1 # r2 /\ r1 \in Counted(req[r1].pid) /\ r2 \in Counted(req[r1].pid))
         => req[r1].row # req[r2].row

\* C30 as stated: the counter counts every view, each view emits one event
\* with its post-increment count, and the values a member receives for a
\* portfolio never decrease from one event to the next.
C30_ViewsCountedAndMonotonic ==
  /\ ViewCounts
  /\ \A c \in Conns, p \in PortfolioIds :
       \A k, l \in DOMAIN Observed(c, p) : k < l => Observed(c, p)[k] <= Observed(c, p)[l]

\* C30 amended: the counter counts every view and each view emits one event
\* with the count of its own increment; the values a member receives for a
\* portfolio are all different and none exceeds the stored count, but events
\* of concurrent views may arrive in either order.
C30_ViewsCounted ==
  /\ ViewCounts
  /\ \A c \in Conns, p \in PortfolioIds :
       /\ \A k, l \in DOMAIN Observed(c, p) : k # l => Observed(c, p)[k] # Observed(c, p)[l]
       /\ \A k \in DOMAIN Observed(c, p) : Observed(c, p)[k] \in 1..analytics[p]

\* two concurrent views of p1 are both counted and a member of the room of
\* p1 received count 2 before count 1
C30_Witness ==
  \E c \in Conns :
    /\ analytics["p1"] = 2
    /\ Len(inbox[c]) = 2
    /\ Observed(c, "p1")[1] = 2 /\ Observed(c, "p1")[2] = 1

\* C24: joining a portfolio room is not gated: a connected socket, whoever its
\* user is, is a member of the room its latest join_portfolio names, also for
\* a portfolio of another user or an unpublished one, and every event
\* dispatched to the room from then on is written to it.
C24_JoinNotGated ==
  [][\A c \in Conns :
       /\ (Live(c)' /\ recent'[c] # <<>> /\ Latest(c)'[1] = "join_portfolio")
            => c \in rooms'[RoomOf(Latest(c)'[2])]
       /\ \A r \in Reqs :
            LET n == Len(dispatchLog[r]) IN
              (Len(dispatchLog'[r]) = n + 1 /\ c \in rooms[dispatchLog'[r][n + 1].target])
                => inbox'[c] = Append(inbox[c], <<r, n + 1>>)]_vars

\* a socket of u1 joined the room of p2, an unpublished portfolio of u2, and
\* holds the update that u2 made to it
C24_Witness ==
  \E c \in Conns :
    /\ Live(c) /\ conn[c].user = "u1"
    /\ portfolios["p2"].owner = "u2" /\ ~portfolios["p2"].is_published
    /\ recent[c] # <<>> /\ Latest(c) = <<"join_portfolio", <<"string", "p2">>>>
    /\ Len(dispatchLog[1]) = 1 /\ dispatchLog[1][1].target = PortfolioRoom("p2")
    /\ inbox[c] = << <<1, 1>> >>

\* the rows of the modelled tables that refer to portfolio p
Referring(p) ==
  [sections |-> {x \in SectionIds : sections[x].pid = p},
   contacts |-> {k \in contacts : k.pid = p},
   analytics |-> analytics[p] >= 0]
NoneReferring == [sections |-> {}, contacts |-> {}, analytics |-> FALSE]

\* C25: once DELETE /api/portfolios/p has answered 204, p has no row and no
\* section, contact or analytics row refers to p, in every later state, also
\* when section and contact creations for p ran between the delete's
\* statements.
C25_DeletedLeavesNothing ==
  \A r \in Reqs :
    (req[r].kind = "delete" /\ req[r].pc = "done" /\ req[r].status = 204)
      => ~HasRow(req[r].pid) /\ Referring(req[r].pid) = NoneReferring

\* the delete of p1 answered 204 while a section creation for p1, which had
\* passed its ownership check, was refused by the store
C25_Witness ==
  \E r, q \in Reqs :
    /\ req[r].kind = "delete" /\ req[r].pc = "done" /\ req[r].status = 204
    /\ req[r].pid = "p1"
    /\ req[q].kind = "sectionCreate" /\ req[q].pc = "done" /\ req[q].status = 500

\* the routes that change a portfolio or its sections
OwnerMutations == {"create", "update", "delete"} \cup SectionKinds
Rejections == {400, 401, 403, 404}

\* C26: a mutation request answered with a rejection (401 or 403 on the
\* token, 400 on validation, 404 on a portfolio or section that is missing or
\* not the requester's, 403 on a create for another user) has written
\* nothing and emitted nothing.
C26_RejectedLeavesNoTrace ==
  \A r \in Reqs :
    (req[r].kind \in OwnerMutations /\ req[r].pc = "done" /\ req[r].status \in Rejections)
      => /\ ~req[r].acked /\ req[r].rows = 0
         /\ dispatchLog[r] = <<>>
         /\ \A c \in Conns : \A k \in DOMAIN inbox[c] : inbox[c][k][1] # r
         /\ \A x \in SectionIds : x = uuidv4(r) => sections[x].pid = None
         /\ ~HasRow(uuidv4(r))

\* a create for another user was answered 403 FORBIDDEN and a section request
\* 404, and the store is as it was seeded
C26_Witness ==
  \E r, q \in Reqs :
    /\ req[r].kind = "create" /\ req[r].pc = "done" /\ req[r].code = "FORBIDDEN"
    /\ req[q].kind \in SectionKinds /\ req[q].pc = "done" /\ req[q].status = 404
    /\ sections["s1"] = [pid |-> "p1", type |-> "Text"]
    /\ portfolios["p1"].title = "t0" /\ HasRow("p2")

\* the routes that name a portfolio and check the requester against its owner
OwnerGated == {"get", "update", "delete"} \cup SectionKinds

\* C28: a request of an authenticated user on a portfolio (or a section of a
\* portfolio) that another user owns never gets past its ownership check: it
\* reads no row, every step of it leaves the store and the rooms' events
\* unchanged, and it is answered 404 (500 when the check's query fails).
C28_OtherUsersPortfolio ==
  [][\A r \in Reqs :
       (/\ req[r].kind \in OwnerGated /\ req[r].pc \in {"auth", "check"}
        /\ req[r].sub \in users
        /\ portfolios[req[r].pid].owner \notin {None, req[r].sub}
        /\ req'[r] # req[r])
         => /\ UNCHANGED <<dbVars, netVars>>
            /\ req'[r].row = None /\ ~req'[r].acked
            /\ \/ req[r].pc = "auth" /\ req'[r].pc = "check"
               \/ req[r].pc = "auth" /\ req'[r].pc = "done" /\ req'[r].status \in {400, 403}
               \/ req[r].pc = "check" /\ req'[r].pc = "done" /\ req'[r].status \in {404, 500}]_vars

\* a section request on s1 was answered 404 although s1, its portfolio p1 and
\* p1's owner are all in the store: the requester was not the owner
C28_Witness ==
  \E r \in Reqs :
    /\ req[r].kind \in {"sectionUpdate", "sectionDelete"} /\ req[r].pc = "done"
    /\ req[r].code = "SECTION_NOT_FOUND"
    /\ sections["s1"] = [pid |-> "p1", type |-> "Text"]
    /\ portfolios["p1"] = [owner |-> "u1", title |-> "t0", is_published |-> TRUE]
    /\ \A q \in Reqs : q # r => req[q].pc = "idle"

\* C29: a register request whose address, trimmed and lower-cased as register
\* stores it, belongs to a stored user creates no user and emits nothing, and
\* the answer it gets is 400 USER_ALREADY_EXISTS, also when another register
\* request for the same address stored it in between.
C29_DuplicateEmailRejected ==
  [][\A r \in Reqs :
       (/\ req[r].kind = "register" /\ req[r].pc \in {"select", "insert"}
        /\ \E u \in users : emails[u] = trim(toLowerCase(req[r].email))
        /\ req'[r] # req[r])
         => /\ UNCHANGED <<users, emails, netVars>>
            /\ req'[r].pc # "emit"
            /\ req'[r].pc = "done"
                 => req'[r].status = 400 /\ req'[r].code = "USER_ALREADY_EXISTS"]_vars

====
